---- MODULE Spec2Model ----
(***************************************************************************)
(* Model of the fun-fact widget (fun_fact_frontend/src/App.js): the three  *)
(* UI flags (currentFact, loading, errorMsg), the accessible live region   *)
(* with its 50 ms announcement timers, and getNewFact with its             *)
(* fetch-with-timeout, content-type-aware parsing and local fallback.      *)
(*                                                                         *)
(* JavaScript strings are TLA+ strings; other JavaScript values (null,     *)
(* undefined, numbers, objects) are tagged records.  Each action is one    *)
(* run-to-completion step of the JavaScript event loop: the code between   *)
(* two awaits, or one timer callback.                                      *)
(***************************************************************************)
EXTENDS Integers, Sequences, FiniteSets, TLC

(* ------------------------------ bounds -------------------------------- *)

\* Longest text the remote source sends as a fact or embeds in JSON.
MaxLen == 2

\* Most announcement timers pending (plus resolutions in flight) at once.
MaxTimers == 2

(* ------------------------- JavaScript values -------------------------- *)

Undefined == [k |-> "undefined"]
JNull == [k |-> "null"]
JStr(s) == [k |-> "string", s |-> s]
JNum(n) == [k |-> "number", n |-> n]
JObj(f) == [k |-> "object", f |-> f]

\* ToBoolean of a value: undefined, null, 0 and "" are falsy.
Truthy(v) ==
  CASE v.k = "undefined" -> FALSE
    [] v.k = "null" -> FALSE
    [] v.k = "number" -> v.n # 0
    [] v.k = "string" -> v.s # ""
    [] OTHER -> TRUE

\* typeof v === 'string'
TypeofString(v) == v.k = "string"

\* v.name for a truthy v: a property of an object, undefined on a primitive.
Get(v, name) ==
  IF v.k = "object" /\ name \in DOMAIN v.f THEN v.f[name] ELSE Undefined

(* ------------------------------ strings ------------------------------- *)

\* The white space String.prototype.trim removes (the part TLA+ can write).
IsWhitespace(c) == c \in {" ", "\t", "\n", "\r"}

RECURSIVE TrimStart(_)
TrimStart(s) ==
  IF s # "" /\ IsWhitespace(Head(s)) THEN TrimStart(Tail(s)) ELSE s

RECURSIVE TrimEnd(_)
TrimEnd(s) ==
  IF s # "" /\ IsWhitespace(SubSeq(s, Len(s), Len(s)))
  THEN TrimEnd(SubSeq(s, 1, Len(s) - 1))
  ELSE s

\* factText.trim()
Trim(s) == TrimEnd(TrimStart(s))

\* hay.includes(needle)
Includes(hay, needle) ==
  \E i \in 1..(Len(hay) - Len(needle) + 1) :
    SubSeq(hay, i, i + Len(needle) - 1) = needle

\* apiBase.replace(/\/+$/, '')
RECURSIVE StripTrailingSlashes(_)
StripTrailingSlashes(s) ==
  IF s # "" /\ SubSeq(s, Len(s), Len(s)) = "/"
  THEN StripTrailingSlashes(SubSeq(s, 1, Len(s) - 1))
  ELSE s

(* --------------------------- the local facts -------------------------- *)

\* The eight fallback facts (non-ASCII punctuation written in ASCII).
localFacts ==
  << "Honey never spoils - archaeologists found pots of it in ancient tombs!",
     "Octopuses have three hearts and blue blood.",
     "Bananas are berries, but strawberries are not.",
     "A group of flamingos is called a 'flamboyance.'",
     "Sea otters hold hands when they sleep so they don't drift apart.",
     "Cows have best friends and can become stressed when separated.",
     "The Eiffel Tower can be 15 cm taller during hot days.",
     "There are more stars in the universe than grains of sand on Earth." >>

\* Math.floor(Math.random() * localFacts.length): Math.random() is in [0, 1).
RandomIndices == 0..(Len(localFacts) - 1)

\* localFacts[idx], with JavaScript's 0-based index
getRandomLocalFact(idx) == localFacts[idx + 1]

LocalFactSet == {localFacts[i] : i \in 1..Len(localFacts)}

(* ------------------------ the remote fact source ---------------------- *)

Alphabet == {" ", "a"}

RECURSIVE StringsOfLen(_)
StringsOfLen(n) ==
  IF n = 0 THEN {""}
  ELSE {s \o c : s \in StringsOfLen(n - 1), c \in Alphabet}

\* Texts of at most MaxLen characters.
Texts == UNION {StringsOfLen(n) : n \in 0..MaxLen}

\* Values of a JSON object's fact field.
FactValues == {JNull, JNum(42)} \cup {JStr(s) : s \in Texts}

Objects(fields, values) == UNION {[D -> values] : D \in SUBSET fields}

\* Values of a JSON object's data field: primitives and objects with fact.
DataValues ==
  {JNull, JNum(0), JStr("a")} \cup {JObj(f) : f \in Objects({"fact"}, FactValues)}

\* An object with any of the fields fact and data.
TopObjects ==
  {JObj(f) : f \in UNION {
     {<<>>},
     {[fact |-> v] : v \in FactValues},
     {[data |-> d] : d \in DataValues},
     {[fact |-> v, data |-> d] : v \in {JNum(42), JStr(""), JStr("a ")},
                                 d \in {JObj([fact |-> JStr("aa")])}} }}

\* The JSON documents the remote source may send.
JsonValues ==
  {JNull, JNum(0), JNum(42)} \cup {JStr(s) : s \in Texts} \cup TopObjects

\* JSON.stringify: the text of a JSON document.
RECURSIVE Stringify(_)
Stringify(v) ==
  CASE v.k = "null" -> "null"
    [] v.k = "number" -> ToString(v.n)
    [] v.k = "string" -> "\"" \o v.s \o "\""
    [] v.k = "object" ->
         LET fact == IF "fact" \in DOMAIN v.f
                     THEN "\"fact\":" \o Stringify(v.f["fact"]) ELSE ""
             data == IF "data" \in DOMAIN v.f
                     THEN "\"data\":" \o Stringify(v.f["data"]) ELSE ""
             sep == IF fact # "" /\ data # "" THEN "," ELSE ""
         IN "{" \o fact \o sep \o data \o "}"

\* A response body: the text of a JSON document, or text that is not JSON
\* (no text over Alphabet is a JSON document).
Bodies ==
  {[k |-> "json", v |-> v] : v \in JsonValues}
    \cup {[k |-> "raw", text |-> s] : s \in Texts}

\* The bodies drawn in the widget's specification: one per way getNewFact
\* treats a body (each JSON shape, no shape, not JSON, blank, empty).
SampleBodies ==
  {[k |-> "json", v |-> v] :
     v \in {JStr(" a"), JObj([fact |-> JStr("a ")]),
            JObj([data |-> JObj([fact |-> JStr("aa")])]),
            JObj([fact |-> JStr(" "), data |-> JObj([fact |-> JStr("aa")])]),
            JObj([fact |-> JNum(42)]), JNull}}
    \cup {[k |-> "raw", text |-> s] : s \in {"a", " ", ""}}

\* resp.text()
BodyText(body) == IF body.k = "json" THEN Stringify(body.v) ELSE body.text

\* Response status codes; resp.ok is status in 200..299.
Statuses == {200, 204, 304, 404, 500}
Ok(status) == 200 <= status /\ status <= 299

\* resp.headers.get('content-type'): a string, or null when absent.
ContentTypeHeaders ==
  {JNull, JStr("application/json; charset=utf-8"), JStr("text/plain")}

\* process.env.REACT_APP_API_BASE
ApiBases == {Undefined, JStr(""), JStr("https://facts.example/api//")}

(* ------------------------------- state -------------------------------- *)

VARIABLES
  apiBase,         \* process.env.REACT_APP_API_BASE
  mounted,         \* the initial-load effect has run
  currentFact,     \* useState('')
  loading,         \* useState(false)
  errorMsg,        \* useState('')
  liveRegion,      \* liveRegionRef.current.textContent
  announceTimers,  \* texts of the pending 50 ms timers, in firing order
  calls,           \* the getNewFact invocations suspended at an await
  userActed,       \* history: the button has been clicked
  lastOutcome,     \* history: how the last completed getNewFact ended
  lastResponse     \* history: the response body it read, if it read one
                   \* and no later request has started

vars == <<apiBase, mounted, currentFact, loading, errorMsg, liveRegion,
          announceTimers, calls, userActed, lastOutcome, lastResponse>>

\* lastOutcome is "none", "local", "remote" or one of the failure kinds.
FailureKinds == {"Timeout", "NetworkError", "HttpStatusError", "MalformedResponse"}

\* No response body was read.
NoResponse == [k |-> "none"]

DegradedNotice == "Showing a local fun fact because the network request failed."

Init ==
  /\ apiBase \in ApiBases
  /\ mounted = FALSE
  /\ currentFact = ""
  /\ loading = FALSE
  /\ errorMsg = ""
  /\ liveRegion = ""
  /\ announceTimers = <<>>
  /\ calls = <<>>
  /\ userActed = FALSE
  /\ lastOutcome = "none"
  /\ lastResponse = NoResponse

(* ------------------------------ helpers ------------------------------- *)

\* updateLiveRegion without the clearing of the region.
updateLiveRegion_NoClear(text) ==
  /\ UNCHANGED liveRegion
  /\ announceTimers' = Append(announceTimers, text)

\* updateLiveRegion(text): clear the region, set it to text 50 ms later.
updateLiveRegion(text) ==
  /\ liveRegion' = ""
  /\ announceTimers' = Append(announceTimers, text)

\* setFactAndAnnounce without setCurrentFact.
setFactAndAnnounce_AnnounceOnly(fact) ==
  /\ UNCHANGED currentFact
  /\ updateLiveRegion(fact)

\* setFactAndAnnounce(fact)
setFactAndAnnounce(fact) ==
  /\ currentFact' = fact
  /\ updateLiveRegion(fact)

\* The catch block without setErrorMsg.
Fallback_Silent(idx) ==
  /\ setFactAndAnnounce(getRandomLocalFact(idx))
  /\ UNCHANGED errorMsg
  /\ loading' = FALSE

\* The catch block of getNewFact followed by its finally block.
Fallback(idx) ==
  /\ setFactAndAnnounce(getRandomLocalFact(idx))
  /\ errorMsg' = DegradedNotice
  /\ loading' = FALSE

\* The sequence without its i-th element.
Remove(seq, i) == SubSeq(seq, 1, i - 1) \o SubSeq(seq, i + 1, Len(seq))

\* A button that is never disabled.
ButtonDisabled_Never == FALSE

\* The button's disabled attribute.
ButtonDisabled == loading

\* apiBase === undefined in place of !apiBase.
ApiBaseAbsent_Undefined == apiBase = Undefined

\* !apiBase
ApiBaseAbsent == ~Truthy(apiBase)

\* The address getNewFact requests.
Url == StripTrailingSlashes(apiBase.s) \o "/fun-facts/random"

\* The text getNewFact takes from a successful response, "" when the JSON
\* document has none of the three shapes; SyntaxError when resp.json() rejects.
SyntaxError == [k |-> "SyntaxError"]

\* ExtractFact with data.data.fact looked at before data.fact.
ExtractFact_DataFirst(contentType, body) ==
  IF Includes(contentType, "application/json")
  THEN IF body.k # "json" THEN SyntaxError
       ELSE LET data == body.v IN
            IF TypeofString(data) THEN data
            ELSE IF Truthy(data) /\ Truthy(Get(data, "data"))
                    /\ TypeofString(Get(Get(data, "data"), "fact"))
                 THEN Get(Get(data, "data"), "fact")
            ELSE IF Truthy(data) /\ TypeofString(Get(data, "fact"))
                 THEN Get(data, "fact")
            ELSE JStr("")
  ELSE JStr(BodyText(body))

ExtractFact(contentType, body) ==
  IF Includes(contentType, "application/json")
  THEN IF body.k # "json" THEN SyntaxError
       ELSE LET data == body.v IN
            IF TypeofString(data) THEN data
            ELSE IF Truthy(data) /\ TypeofString(Get(data, "fact"))
                 THEN Get(data, "fact")
            ELSE IF Truthy(data) /\ Truthy(Get(data, "data"))
                    /\ TypeofString(Get(Get(data, "data"), "fact"))
                 THEN Get(Get(data, "data"), "fact")
            ELSE JStr("")
  ELSE JStr(BodyText(body))

(* ------------------------------ actions ------------------------------- *)

\* An initial load that calls getNewFact in place of the local pick.
Mount_Resolve ==
  /\ ~mounted
  /\ mounted' = TRUE
  /\ errorMsg' = ""
  /\ IF ApiBaseAbsent
     THEN /\ \E idx \in RandomIndices : setFactAndAnnounce(getRandomLocalFact(idx))
          /\ loading' = FALSE
          /\ lastOutcome' = "local"
          /\ UNCHANGED calls
     ELSE /\ loading' = TRUE
          /\ calls' = Append(calls, [pc |-> "fetch", url |-> Url, fetches |-> 1,
                                     timer |-> TRUE, contentType |-> ""])
          /\ UNCHANGED <<currentFact, liveRegion, announceTimers, lastOutcome>>
  /\ UNCHANGED <<apiBase, userActed, lastResponse>>

\* The initial-load effect: show a random local fact.
Mount ==
  /\ ~mounted
  /\ mounted' = TRUE
  /\ \E idx \in RandomIndices : setFactAndAnnounce(getRandomLocalFact(idx))
  /\ UNCHANGED <<apiBase, loading, errorMsg, calls, userActed, lastOutcome,
                 lastResponse>>

\* A click on the button with no API base: getNewFact runs to its return.
ClickLocal ==
  /\ mounted
  /\ ~ButtonDisabled
  /\ Len(announceTimers) + Len(calls) < MaxTimers
  /\ ApiBaseAbsent
  /\ errorMsg' = ""
  /\ \E idx \in RandomIndices : setFactAndAnnounce(getRandomLocalFact(idx))
  /\ loading' = FALSE
  /\ userActed' = TRUE
  /\ lastOutcome' = "local"
  /\ lastResponse' = NoResponse
  /\ UNCHANGED <<apiBase, mounted, calls>>

\* A click on the button with an API base: getNewFact runs up to the await
\* of fetch in fetchWithTimeout, with the abort timer started.
ClickRemote ==
  /\ mounted
  /\ ~ButtonDisabled
  /\ Len(announceTimers) + Len(calls) < MaxTimers
  /\ ~ApiBaseAbsent
  /\ errorMsg' = ""
  /\ loading' = TRUE
  /\ calls' = Append(calls, [pc |-> "fetch", url |-> Url, fetches |-> 1,
                             timer |-> TRUE, contentType |-> ""])
  /\ userActed' = TRUE
  /\ lastResponse' = NoResponse
  /\ UNCHANGED <<apiBase, mounted, currentFact, liveRegion, announceTimers,
                 lastOutcome>>

\* The abort timer fires first: controller.abort() rejects the fetch.
AbortTimerFires(i) ==
  /\ i \in DOMAIN calls
  /\ calls[i].pc = "fetch"
  /\ calls[i].timer
  /\ \E idx \in RandomIndices : Fallback(idx)
  /\ calls' = Remove(calls, i)
  /\ lastOutcome' = "Timeout"
  /\ lastResponse' = NoResponse
  /\ UNCHANGED <<apiBase, mounted, userActed>>

\* The transport fails before the response: fetch rejects.
FetchRejects(i) ==
  /\ calls[i].pc = "fetch"
  /\ \E idx \in RandomIndices : Fallback(idx)
  /\ calls' = Remove(calls, i)
  /\ lastOutcome' = "NetworkError"
  /\ lastResponse' = NoResponse
  /\ UNCHANGED <<apiBase, mounted, userActed>>

\* fetch resolves with a non-success status: the abort timer is cleared and
\* getNewFact throws.
ResponseNotOk(i) ==
  /\ calls[i].pc = "fetch"
  /\ \E status \in Statuses : ~Ok(status)
  /\ \E idx \in RandomIndices : Fallback(idx)
  /\ calls' = Remove(calls, i)
  /\ lastOutcome' = "HttpStatusError"
  /\ lastResponse' = NoResponse
  /\ UNCHANGED <<apiBase, mounted, userActed>>

\* fetch resolves with a success status: the abort timer is cleared and
\* getNewFact awaits the body, resp.json() or resp.text().
ResponseOk(i) ==
  /\ calls[i].pc = "fetch"
  /\ \E status \in Statuses, header \in ContentTypeHeaders :
       /\ Ok(status)
       /\ calls' = [calls EXCEPT ![i] =
            [pc |-> "body", url |-> @.url, fetches |-> @.fetches, timer |-> FALSE,
             contentType |-> IF Truthy(header) THEN header.s ELSE ""]]
  /\ UNCHANGED <<apiBase, mounted, currentFact, loading, errorMsg, liveRegion,
                 announceTimers, userActed, lastOutcome, lastResponse>>

\* The body arrives, one of bodies: the fact is extracted, checked, trimmed and shown, or
\* getNewFact throws and falls back.
BodyArrives(i, bodies) ==
  /\ calls[i].pc = "body"
  /\ \E body \in bodies :
       LET factText == ExtractFact(calls[i].contentType, body) IN
       /\ lastResponse' = [contentType |-> calls[i].contentType, body |-> body]
       /\ IF factText = SyntaxError \/ ~Truthy(factText) \/ ~TypeofString(factText)
          THEN /\ \E idx \in RandomIndices : Fallback(idx)
               /\ lastOutcome' = "MalformedResponse"
          ELSE /\ setFactAndAnnounce(Trim(factText.s))
               /\ loading' = FALSE
               /\ lastOutcome' = "remote"
               /\ UNCHANGED errorMsg
  /\ calls' = Remove(calls, i)
  /\ UNCHANGED <<apiBase, mounted, userActed>>

\* The transport fails while the body is read: resp.json()/text() rejects.
BodyRejects(i) ==
  /\ calls[i].pc = "body"
  /\ \E idx \in RandomIndices : Fallback(idx)
  /\ calls' = Remove(calls, i)
  /\ lastOutcome' = "NetworkError"
  /\ lastResponse' = NoResponse
  /\ UNCHANGED <<apiBase, mounted, userActed>>

\* The oldest 50 ms timer fires: the live region gets its text.
AnnounceTimerFires ==
  /\ announceTimers # <<>>
  /\ liveRegion' = Head(announceTimers)
  /\ announceTimers' = Tail(announceTimers)
  /\ UNCHANGED <<apiBase, mounted, currentFact, loading, errorMsg, calls,
                 userActed, lastOutcome, lastResponse>>

Next ==
  \/ Mount
  \/ ClickLocal
  \/ ClickRemote
  \/ \E i \in 1..Len(calls) : AbortTimerFires(i)
  \/ \E i \in 1..Len(calls) : FetchRejects(i)
  \/ \E i \in 1..Len(calls) : ResponseNotOk(i)
  \/ \E i \in 1..Len(calls) : ResponseOk(i)
  \/ \E i \in 1..Len(calls) : BodyArrives(i, SampleBodies)
  \/ \E i \in 1..Len(calls) : BodyRejects(i)
  \/ AnnounceTimerFires

Spec == Init /\ [][Next]_vars

\* The event loop runs every timer callback that is due; the network is under
\* no obligation to deliver anything.
LiveSpec ==
  /\ Spec
  /\ WF_vars(AnnounceTimerFires)
  /\ \A i \in 1..MaxTimers : WF_vars(AbortTimerFires(i))

\* The widget after its initial load, with the announcement made.
ParseInit ==
  /\ apiBase \in {b \in ApiBases : Truthy(b)}
  /\ mounted = TRUE
  /\ currentFact \in LocalFactSet
  /\ loading = FALSE
  /\ errorMsg = ""
  /\ liveRegion = currentFact
  /\ announceTimers = <<>>
  /\ calls = <<>>
  /\ userActed = FALSE
  /\ lastOutcome = "none"
  /\ lastResponse = NoResponse

\* The remote source always answers with success, with any body of Bodies, and
\* the user waits for the announcement before asking again.
ParseNext ==
  \/ announceTimers = <<>> /\ ClickRemote
  \/ \E i \in 1..Len(calls) : ResponseOk(i)
  \/ \E i \in 1..Len(calls) : BodyArrives(i, Bodies)
  \/ AnnounceTimerFires

\* getNewFact applied to every successful response.
ParseSpec == ParseInit /\ [][ParseNext]_vars

(* ------------------------------ claims -------------------------------- *)

\* The base address is absent: undefined or empty.
NoBaseAddress == apiBase \in {Undefined, JStr("")}

\* v is an object whose field name holds a string.
HasString(v, name) ==
  v.k = "object" /\ name \in DOMAIN v.f /\ v.f[name].k = "string"

\* The string embedded in a JSON document, by the first of the three shapes
\* that matches: at most one text.
ShapeTexts(v) ==
  IF v.k = "string" THEN {v.s}
  ELSE IF HasString(v, "fact") THEN {v.f["fact"].s}
  ELSE IF v.k = "object" /\ "data" \in DOMAIN v.f /\ HasString(v.f["data"], "fact")
       THEN {v.f["data"].f["fact"].s}
  ELSE {}

\* The text a successful response r carries: the embedded string under a JSON
\* content type (none when the body does not parse or has no shape), the whole
\* body otherwise.
ResponseTexts(r) ==
  IF Includes(r.contentType, "application/json")
  THEN IF r.body.k = "json" THEN ShapeTexts(r.body.v) ELSE {}
  ELSE {BodyText(r.body)}

\* The last response was malformed: no text, or a text blank after trimming.
LastResponseMalformed ==
  /\ lastResponse # NoResponse
  /\ \A t \in ResponseTexts(lastResponse) : Trim(t) = ""

\* C1: once a resolution has completed, the displayed fact is non-empty: a
\* member of the local fact set, or the remote text, trimmed and non-empty.
C1_FactNonEmpty ==
  lastOutcome # "none" =>
    /\ currentFact # ""
    /\ \/ currentFact \in LocalFactSet
       \/ lastOutcome = "remote" /\ Trim(currentFact) = currentFact

\* C2: a resolution that ended in one of the four failure kinds (Timeout,
\* NetworkError, non-success status, MalformedResponse) shows a local fact
\* with the degraded notice and loading false.
C2_FailuresDegrade ==
  (calls = <<>> /\ (\/ lastOutcome \in {"Timeout", "NetworkError", "HttpStatusError"}
                   \/ LastResponseMalformed)) =>
    /\ currentFact \in LocalFactSet
    /\ errorMsg = DegradedNotice
    /\ ~loading

\* C3: with the base address absent no request is ever in flight, the widget
\* is never loading or degraded, only local resolutions complete and the
\* displayed fact is a member of the local fact set.
C3_LocalOnly ==
  NoBaseAddress =>
    /\ calls = <<>>
    /\ ~loading
    /\ errorMsg = ""
    /\ lastOutcome \in {"none", "local"}
    /\ mounted => currentFact \in LocalFactSet

C3_Witness == NoBaseAddress /\ lastOutcome = "local" /\ userActed

\* C4: whenever the widget is loading it eventually is not loading.
C4_EventuallyCompletes == loading ~> ~loading

\* C5 as stated: the displayed fact is the trimmed text of the response, for
\* every text, and the result is not degraded.
C5_RemoteFact ==
  lastResponse # NoResponse =>
    \A t \in ResponseTexts(lastResponse) :
      currentFact = Trim(t) /\ lastOutcome = "remote" /\ errorMsg = ""

\* C5: for every successful response whose text (the embedded string of the
\* first matching shape under a JSON content type, the whole body otherwise) is
\* not blank, the displayed fact is that text trimmed, not degraded.
C5_RemoteFactNonBlank ==
  lastResponse # NoResponse =>
    \A t \in ResponseTexts(lastResponse) :
      Trim(t) # "" =>
        currentFact = Trim(t) /\ lastOutcome = "remote" /\ errorMsg = ""

C5_Witness ==
  /\ lastResponse # NoResponse
  /\ Includes(lastResponse.contentType, "application/json")
  /\ lastResponse.body =
       [k |-> "json",
        v |-> JObj([fact |-> JStr("a "), data |-> JObj([fact |-> JStr("aa")])])]
  /\ currentFact = "a"

\* C6 as stated: with a base address, the fact shown after the initial load
\* comes from a resolution with a remote attempt, completed or in flight.
C6_InitialLoadResolves ==
  (mounted /\ ~userActed /\ ~NoBaseAddress) =>
    (calls # <<>> \/ lastOutcome \in {"remote"} \cup FailureKinds)

\* C6: with a base address, the initial load makes no remote attempt and runs
\* no resolution; the widget sits in Idle, not loading and without notice.
C6_InitialLoadLocal ==
  (mounted /\ ~userActed /\ ~NoBaseAddress) =>
    /\ calls = <<>>
    /\ lastOutcome = "none"
    /\ ~loading
    /\ errorMsg = ""

C6_Witness ==
  mounted /\ ~userActed /\ ~NoBaseAddress /\ announceTimers = <<>>

\* C7: after the initial mount and before any user action the displayed fact
\* is a member of the local fact set and the button is enabled.
C7_InitialFact ==
  (mounted /\ ~userActed) => (currentFact \in LocalFactSet /\ ~ButtonDisabled)

C7_Witness ==
  mounted /\ ~userActed /\ currentFact = localFacts[Len(localFacts)]

\* C8: at most one getNewFact is in flight, and only while loading; each has
\* issued one fetch; a request starts only when none is in flight and the
\* widget is not loading, and it makes the widget loading.
C8_OneInFlight ==
  /\ [](/\ Len(calls) <= 1
        /\ calls # <<>> => loading
        /\ \A i \in 1..Len(calls) : calls[i].fetches <= 1)
  /\ [][Len(calls') > Len(calls) => (~loading /\ calls = <<>> /\ loading')]_vars

C8_Witness == Len(calls) = 1 /\ loading /\ calls[1].pc = "body"

\* C9: each announcement clears the live region and queues the displayed fact;
\* each timer sets the region to its text; with no timer pending the region
\* holds the displayed fact.
C9_Announce ==
  /\ [](announceTimers = <<>> => liveRegion = currentFact)
  /\ [][Len(announceTimers') > Len(announceTimers) =>
          /\ liveRegion' = ""
          /\ announceTimers' = Append(announceTimers, currentFact')]_vars
  /\ [][Len(announceTimers') < Len(announceTimers) =>
          /\ liveRegion' = Head(announceTimers)
          /\ announceTimers' = Tail(announceTimers)]_vars

\* The same fact announced twice, the first timer firing after the second
\* announcement.
C9_Witness == announceTimers = <<currentFact>> /\ liveRegion = currentFact

\* C10: when not loading, the notice is shown exactly when the last completed
\* resolution failed remotely and fell back; a starting request clears the
\* notice; while loading the displayed fact does not change.
C10_Notice ==
  /\ [](~loading => (errorMsg # "" <=> lastOutcome \in FailureKinds))
  /\ [][(~loading /\ loading') => errorMsg' = ""]_vars
  /\ [][(loading /\ loading') => currentFact' = currentFact]_vars

C10_Witness ==
  ~loading /\ errorMsg = DegradedNotice /\ lastOutcome = "Timeout" /\ calls = <<>>
====
